---- MODULE Spec2Model ----
(***************************************************************************)
(* A model of main.py of recursive_configuration: the mapping-model        *)
(* loader, the per-configuration specializer, the variant resolver, the    *)
(* template map builder, the configuration parser and the processing loop. *)
(*                                                                         *)
(* Strings are sequences of one-character strings, so that "'.' in s",     *)
(* s[:s.index('.')], str.replace and f-string formatting are computed and  *)
(* not assumed.  Python values (None, True, str, a raised exception) are   *)
(* records [tag, s].  VariationPoint and Variant objects live in a heap    *)
(* (a sequence of objects, the address being the index), so that aliasing  *)
(* between a mapping model and its copies is visible.                      *)
(***************************************************************************)
EXTENDS Integers, Sequences, FiniteSets, TLC

VARIABLES
    pc,              \* position of the program / which call has been made
    csv_rows,        \* rows of the mapping-model file given to load_mapping_model
    heap,            \* the VariationPoint and Variant objects
    mapping_model,   \* dict key -> VariationPoint (insertion ordered): Seq of [key, vp]
    map_models,      \* list of specialized mapping models
    configurations,  \* list of Configuration (elements: Feature -> bool)
    attributes,      \* list of attribute dicts (identifier -> value)
    xml,             \* children of the root of a configuration file
    arg,             \* the remaining arguments of the call under study
    result           \* what the call returned or raised

vars == <<pc, csv_rows, heap, mapping_model, map_models, configurations,
          attributes, xml, arg, result>>

----------------------------------------------------------------------------
(* Bounds of the model *)

MaxRows == 3        \* rows of a mapping-model file
MaxChunks == 2      \* pieces a variant value is concatenated from
MaxConfigs == 3     \* configurations handed to the specializer / the loop
MaxVariants == 2    \* variants of a variation point handed to the resolver
MaxAttrSets == 2    \* attribute sets handed to get_attribute_value
MaxRecords == 2     \* feature records of a configuration file

----------------------------------------------------------------------------
(* Strings *)

sOp == <<"O", "p">>
sAdd == <<"A", "d", "d">>
sSub == <<"S", "u", "b">>
sGhost == <<"G", "h">>
sExpr == <<"E", "x", "p", "r">>
sDash == <<"-">>
sPlus == <<"+">>
sMinus == <<"m", "i", "n", "u", "s">>
sOpA == <<"O", "p", ".", "a">>
sAddA == <<"A", "d", "d", ".", "a">>
sGhostA == <<"G", "h", ".", "a">>
sPx == <<"P", ".", "x">>
sV1 == <<"1">>
sV2 == <<"2">>
sSelected == <<"s", "e", "l", "e", "c", "t", "e", "d">>
sUnselected == <<"u", "n", "s", "e", "l", "e", "c", "t", "e", "d">>

\* c in s
Contains(s, c) == \E i \in 1..Len(s) : s[i] = c

\* s.index(c), counted from 1; Len(s)+1 when c is not in s
Index(s, c) == IF Contains(s, c)
               THEN CHOOSE i \in 1..Len(s) : s[i] = c /\ \A j \in 1..(i-1) : s[j] # c
               ELSE Len(s) + 1

\* s[:s.index(c)]
BeforeFirst(s, c) == SubSeq(s, 1, Index(s, c) - 1)

\* old occurs in s at position p
OccursAt(s, old, p) == /\ p >= 1
                       /\ p + Len(old) - 1 <= Len(s)
                       /\ SubSeq(s, p, p + Len(old) - 1) = old

RECURSIVE ReplaceFrom(_, _, _, _)
ReplaceFrom(s, old, new, p) ==
    IF p > Len(s) THEN <<>>
    ELSE IF OccursAt(s, old, p)
         THEN new \o ReplaceFrom(s, old, new, p + Len(old))
         ELSE <<s[p]>> \o ReplaceFrom(s, old, new, p + 1)

\* A slip: only the first occurrence is replaced (str.replace(old, new, 1)).
ReplaceFirstOnly(s, old, new) ==
    IF \E p \in 1..Len(s) : OccursAt(s, old, p)
    THEN LET p == CHOOSE q \in 1..Len(s) :
                      OccursAt(s, old, q) /\ \A r \in 1..(q-1) : ~OccursAt(s, old, r)
         IN SubSeq(s, 1, p - 1) \o new \o SubSeq(s, p + Len(old), Len(s))
    ELSE s

\* str.replace(old, new) for a non-empty old: the non-overlapping occurrences,
\* found left to right
Replace(s, old, new) == ReplaceFrom(s, old, new, 1)

Digit(d) == <<"0", "1", "2", "3", "4", "5", "6", "7", "8", "9">>[d + 1]

\* str(n) of f'{n}', n >= 0
RECURSIVE IntStr(_)
IntStr(n) == IF n < 10 THEN <<Digit(n)>>
             ELSE IntStr(n \div 10) \o <<Digit(n % 10)>>

----------------------------------------------------------------------------
(* Python values *)

None == [tag |-> "None", s |-> <<>>]
True == [tag |-> "True", s |-> <<>>]
Str(s) == [tag |-> "str", s |-> s]
Raise(e) == [tag |-> "raise", s |-> e]
NotCalled == [tag |-> "-", s |-> <<>>]

UnknownFeature == <<"UnknownFeature">>
AttributeError == <<"AttributeError">>
KeyError == <<"KeyError">>

IsRaise(v) == v.tag = "raise"

----------------------------------------------------------------------------
(* The feature model: the names of its features.  A Feature is its name     *)
(* (flamapy's Feature compares and hashes by name).                         *)

fm == {sOp, sAdd, sSub}

\* A slip: every name resolves (no existence check).
get_feature_from_fm_unchecked(feature_name, model) == Str(feature_name)

\* The feature, or the exception of line 57
get_feature_from_fm(feature_name, model) ==
    IF feature_name \in model THEN Str(feature_name) ELSE Raise(UnknownFeature)

----------------------------------------------------------------------------
(* Dicts that keep insertion order: sequences of [key, vp] with unique keys *)

DictKeys(d) == {d[i].key : i \in 1..Len(d)}

DictGet(d, k) == (CHOOSE i \in 1..Len(d) : d[i].key = k)

\* d[k] = v: an existing key keeps its position
DictSet(d, k, v) ==
    IF k \in DictKeys(d)
    THEN [i \in 1..Len(d) |-> IF d[i].key = k THEN [key |-> k, vp |-> v] ELSE d[i]]
    ELSE Append(d, [key |-> k, vp |-> v])

----------------------------------------------------------------------------
(* load_mapping_model                                                       *)

VariationPoint(feature, handler) ==
    [kind |-> "VariationPoint", feature |-> feature, handler |-> handler,
     variants |-> <<>>]

Variant(identifier, value) ==
    [kind |-> "Variant", identifier |-> identifier, value |-> value]

\* lines 102-109: the key of a row
RowKey(row) == IF Contains(row.VariantIdentifier, ".")
               THEN row.VariantIdentifier
               ELSE row.VariationPointFeature

\* lines 110-111
NormalizedValue(variant_value) ==
    IF variant_value = sDash THEN None ELSE Str(variant_value)

\* lines 102-109: whether the row creates a VariationPoint
RowCreates(d, row) ==
    \/ Contains(row.VariantIdentifier, ".")
    \/ row.VariationPointFeature \notin DictKeys(d)

\* One iteration of the loop of lines 97-113 on st = [heap, dict, err]
LoadRow(st, row) ==
    IF IsRaise(st.err) THEN st
    ELSE
    LET key == RowKey(row)
        creates == RowCreates(st.dict, row)
        f == get_feature_from_fm(row.VariationPointFeature, fm)
    IN  IF creates /\ IsRaise(f) THEN [st EXCEPT !.err = f]
        ELSE
        LET h1 == IF creates
                  THEN Append(st.heap, VariationPoint(f.s, row.Handler))
                  ELSE st.heap
            d1 == IF creates THEN DictSet(st.dict, key, Len(h1)) ELSE st.dict
            vpa == d1[DictGet(d1, key)].vp
            h2 == Append(h1, Variant(row.VariantIdentifier,
                                     NormalizedValue(row.VariantValue)))
            h3 == [h2 EXCEPT ![vpa].variants = Append(@, Len(h2))]
        IN  [heap |-> h3, dict |-> d1, err |-> st.err]

RECURSIVE LoadRows(_, _, _)
LoadRows(st, rows, i) ==
    IF i > Len(rows) THEN st ELSE LoadRows(LoadRow(st, rows[i]), rows, i + 1)

EmptyLoad == [heap |-> <<>>, dict |-> <<>>, err |-> NotCalled]

\* lines 92-114 on the rows of the file
load_mapping_model(rows) == LoadRows(EmptyLoad, rows, 1)

\* The VariationPoint at address a as a value: its variants dereferenced
VP(h, a) == [feature |-> h[a].feature, handler |-> h[a].handler,
             variants |-> [j \in 1..Len(h[a].variants) |->
                              [identifier |-> h[h[a].variants[j]].identifier,
                               value |-> h[h[a].variants[j]].value]]]

\* A mapping model as a value: Seq of [key, vp value]
View(h, d) == [i \in 1..Len(d) |-> [key |-> d[i].key, vp |-> VP(h, d[i].vp)]]

----------------------------------------------------------------------------
(* SpecLoad: load_mapping_model reading a mapping-model file row by row     *)

LoadFeatureNames == {sOp, sAdd, sGhost}
LoadHandlers == {sOp, sExpr}
LoadIdentifiers == {sSub, sOpA}
LoadValues == {sDash, sPlus}

LoadFileRows == [VariationPointFeature : LoadFeatureNames, Handler : LoadHandlers,
                 VariantIdentifier : LoadIdentifiers, VariantValue : LoadValues]

InitLoad ==
    /\ pc = "load"
    /\ csv_rows = <<>>
    /\ heap = <<>>
    /\ mapping_model = <<>>
    /\ map_models = <<>>
    /\ configurations = <<>>
    /\ attributes = <<>>
    /\ xml = <<>>
    /\ arg = NotCalled
    /\ result = NotCalled

\* One iteration of the loop of lines 97-113 on the next row of the file
ReadRow ==
    /\ pc = "load"
    /\ Len(csv_rows) < MaxRows
    /\ \E row \in LoadFileRows :
          LET st == LoadRow([heap |-> heap, dict |-> mapping_model, err |-> NotCalled], row)
          IN  /\ csv_rows' = Append(csv_rows, row)
              /\ heap' = st.heap
              /\ mapping_model' = st.dict
              /\ result' = st.err
              /\ pc' = IF IsRaise(st.err) THEN "raised" ELSE "load"
    /\ UNCHANGED <<map_models, configurations, attributes, xml, arg>>

\* line 114: the file is exhausted
ReturnMappingModel ==
    /\ pc = "load"
    /\ pc' = "loaded"
    /\ UNCHANGED <<csv_rows, heap, mapping_model, map_models, configurations,
                   attributes, xml, arg, result>>

NextLoad == ReadRow \/ ReturnMappingModel

SpecLoad == InitLoad /\ [][NextLoad]_vars

\* The rows of the file whose key is k, in file order
RowsOfKey(rows, k) ==
    LET Dotted(r) == \E i \in 1..Len(r.VariantIdentifier) : r.VariantIdentifier[i] = "."
        KeyOf(r) == IF Dotted(r) THEN r.VariantIdentifier ELSE r.VariationPointFeature
        Has(r) == KeyOf(r) = k
    IN  SelectSeq(rows, Has)

ClaimedKeys(rows) ==
    {IF \E j \in 1..Len(rows[i].VariantIdentifier) : rows[i].VariantIdentifier[j] = "."
     THEN rows[i].VariantIdentifier ELSE rows[i].VariationPointFeature : i \in 1..Len(rows)}

\* C8: after any sequence of rows, the variation point stored at a key was
\* created on the first row with that key (taking its handler and governing
\* feature) and holds one variant for every row with that key, in row order.
C8_PointCreatedOnFirstRowAndReused ==
    pc = "loaded" =>
        /\ DictKeys(mapping_model) = ClaimedKeys(csv_rows)
        /\ \A k \in ClaimedKeys(csv_rows) :
              LET rs == RowsOfKey(csv_rows, k)
                  vp == VP(heap, mapping_model[DictGet(mapping_model, k)].vp)
              IN  /\ vp.handler = rs[1].Handler
                  /\ vp.feature = rs[1].VariationPointFeature
                  /\ Len(vp.variants) = Len(rs)
                  /\ \A j \in 1..Len(rs) :
                        /\ vp.variants[j].identifier = rs[j].VariantIdentifier
                        /\ vp.variants[j].value =
                              (IF rs[j].VariantValue = <<"-">> THEN None
                               ELSE Str(rs[j].VariantValue))

\* The same statement for the keys that are governing-feature names only
C8_HoldsForUndottedKeys ==
    pc = "loaded" =>
        /\ DictKeys(mapping_model) = ClaimedKeys(csv_rows)
        /\ \A k \in ClaimedKeys(csv_rows) :
              ~Contains(k, ".") =>
              LET rs == RowsOfKey(csv_rows, k)
                  vp == VP(heap, mapping_model[DictGet(mapping_model, k)].vp)
              IN  /\ vp.handler = rs[1].Handler
                  /\ vp.feature = rs[1].VariationPointFeature
                  /\ Len(vp.variants) = Len(rs)
                  /\ \A j \in 1..Len(rs) :
                        /\ vp.variants[j].identifier = rs[j].VariantIdentifier
                        /\ vp.variants[j].value =
                              (IF rs[j].VariantValue = <<"-">> THEN None
                               ELSE Str(rs[j].VariantValue))

----------------------------------------------------------------------------
(* mapping_model_by_configurations                                          *)

\* copy.deepcopy of one VariationPoint: new Variant objects, then a new point
CopyVP(h, a) ==
    LET n == Len(h[a].variants)
        hv == h \o [j \in 1..n |-> h[h[a].variants[j]]]
        vp == [h[a] EXCEPT !.variants = [j \in 1..n |-> Len(h) + j]]
    IN  [heap |-> Append(hv, vp), addr |-> Len(h) + n + 1]

RECURSIVE CopyEntries(_, _, _, _)
CopyEntries(h, d, i, acc) ==
    IF i > Len(d) THEN [heap |-> h, dict |-> acc]
    ELSE LET c == CopyVP(h, d[i].vp)
         IN  CopyEntries(c.heap, d, i + 1, Append(acc, [key |-> d[i].key, vp |-> c.addr]))

\* A slip: copy.copy, a new dict over the same VariationPoint objects.
shallowcopy(h, d) == [heap |-> h, dict |-> d]

\* line 121: copy.deepcopy(mapping_model)
deepcopy(h, d) == CopyEntries(h, d, 1, <<>>)

\* line 124: f'{v.handler}{i-1}' if i != 0 else v.handler
RenamedHandler(handler, i) ==
    IF i # 0 THEN handler \o IntStr(i - 1) ELSE handler

\* lines 125-126 from the j-th variant on: None has no replace
RECURSIVE RenameVariants(_, _, _, _)
RenameVariants(h, vs, j, i) ==
    IF j > Len(vs) THEN [heap |-> h, err |-> NotCalled]
    ELSE IF h[vs[j]].value.tag # "str" THEN [heap |-> h, err |-> Raise(AttributeError)]
    ELSE RenameVariants(
             [h EXCEPT ![vs[j]].value = Str(Replace(@.s, sExpr, sExpr \o IntStr(i)))],
             vs, j + 1, i)

\* lines 122-126 from the k-th item of the copy on
RECURSIVE RenameEntries(_, _, _, _)
RenameEntries(h, d, k, i) ==
    IF k > Len(d) THEN [heap |-> h, err |-> NotCalled]
    ELSE IF h[d[k].vp].handler = sExpr
    THEN LET h1 == [h EXCEPT ![d[k].vp].handler = RenamedHandler(@, i)]
             r == RenameVariants(h1, h1[d[k].vp].variants, 1, i)
         IN  IF IsRaise(r.err) THEN r ELSE RenameEntries(r.heap, d, k + 1, i)
    ELSE RenameEntries(h, d, k + 1, i)

\* lines 119-127 from configuration index i (from 0) on; st = [heap, models, err]
RECURSIVE SpecializeFrom(_, _, _, _)
SpecializeFrom(st, d, n, i) ==
    IF i >= n \/ IsRaise(st.err) THEN st
    ELSE LET c == deepcopy(st.heap, d)
             r == RenameEntries(c.heap, c.dict, 1, i)
         IN  SpecializeFrom([heap |-> r.heap,
                             models |-> IF IsRaise(r.err) THEN st.models
                                        ELSE Append(st.models, c.dict),
                             err |-> r.err],
                            d, n, i + 1)

\* lines 117-128
mapping_model_by_configurations(h, d, configs) ==
    SpecializeFrom([heap |-> h, models |-> <<>>, err |-> NotCalled], d, Len(configs), 0)

----------------------------------------------------------------------------
(* SpecSpecialize: a loaded mapping model is specialized for a list of      *)
(* configurations; afterwards a caller changes one of the copies            *)

Chunks == {sExpr, <<"E">>, <<"x", "p", "r">>, <<"0">>}

RECURSIVE Concats(_)
Concats(n) == IF n = 0 THEN {<<>>}
              ELSE LET prev == Concats(n - 1)
                   IN  prev \cup {q \o c : q \in prev, c \in Chunks}

ValueStrings == Concats(MaxChunks)

SpecializeRows == [VariationPointFeature : {sOp, sAdd}, Handler : {sExpr, sOp},
                   VariantIdentifier : {sSub}, VariantValue : ValueStrings \cup {sDash}]

SpecializeMoreRows == [VariationPointFeature : {sOp, sAdd}, Handler : {sExpr, sOp},
                       VariantIdentifier : {sSub}, VariantValue : {sExpr, sDash}]

\* Mapping-model files of one or two rows
SpecializeFiles == {<<r>> : r \in SpecializeRows}
                   \cup {<<r, q>> : r \in SpecializeRows, q \in SpecializeMoreRows}

\* A configuration selecting every feature (the specializer reads only the
\* position of a configuration in the list)
AllSelected == [f \in fm |-> TRUE]

InitSpecialize ==
    \E rows \in SpecializeFiles :
        LET st == load_mapping_model(rows)
        IN  /\ pc = "loaded"
            /\ csv_rows = rows
            /\ heap = st.heap
            /\ mapping_model = st.dict
            /\ map_models = <<>>
            /\ configurations = <<>>
            /\ attributes = <<>>
            /\ xml = <<>>
            /\ arg = NotCalled
            /\ result = NotCalled

\* line 226: map_models = mapping_model_by_configurations(mapping_model, configurations)
Specialize ==
    /\ pc = "loaded"
    /\ \E n \in 0..MaxConfigs :
          LET cfgs == [i \in 1..n |-> AllSelected]
              st == mapping_model_by_configurations(heap, mapping_model, cfgs)
          IN  /\ configurations' = cfgs
              /\ heap' = st.heap
              /\ map_models' = IF IsRaise(st.err) THEN <<>> ELSE st.models
              /\ result' = st.err
              /\ pc' = IF IsRaise(st.err) THEN "raised" ELSE "specialized"
    /\ UNCHANGED <<csv_rows, mapping_model, attributes, xml, arg>>

Marker == <<"!">>

\* A caller changes the copy of one configuration: the handler of one of its
\* points, the variant list of one of its points, or one of its variants
MutateCopy ==
    /\ pc = "specialized"
    /\ \E c \in 1..Len(map_models) : \E k \in 1..Len(map_models[c]) :
          LET a == map_models[c][k].vp
          IN  /\ \/ heap' = [heap EXCEPT ![a].handler = Marker]
                 \/ heap' = [heap EXCEPT ![a].variants = <<>>]
                 \/ \E j \in 1..Len(heap[a].variants) :
                       heap' = [heap EXCEPT ![heap[a].variants[j]].value = Str(Marker)]
                 \/ \E j \in 1..Len(heap[a].variants) :
                       heap' = [heap EXCEPT ![heap[a].variants[j]].identifier = Marker]
              /\ arg' = [tag |-> "copy", s |-> <<c>>, before |-> heap]
    /\ pc' = "mutated"
    /\ UNCHANGED <<csv_rows, mapping_model, map_models, configurations, attributes,
                   xml, result>>

NextSpecialize == Specialize

SpecSpecialize == InitSpecialize /\ [][NextSpecialize]_vars

(* SpecIsolation: the same call on mapping models of every shape of up to    *)
(* three rows, followed by a change of one of the copies                     *)

IsolationRows == [VariationPointFeature : {sOp, sAdd}, Handler : {sExpr, sOp},
                  VariantIdentifier : {sSub, sOpA}, VariantValue : {sExpr, sDash}]

IsolationFiles == {<<r>> : r \in IsolationRows}
                  \cup {<<r, q>> : r \in IsolationRows, q \in IsolationRows}
                  \cup {<<r, q, u>> : r \in IsolationRows, q \in IsolationRows,
                                       u \in IsolationRows}

InitIsolation ==
    \E rows \in IsolationFiles :
        LET st == load_mapping_model(rows)
        IN  /\ pc = "loaded"
            /\ csv_rows = rows
            /\ heap = st.heap
            /\ mapping_model = st.dict
            /\ map_models = <<>>
            /\ configurations = <<>>
            /\ attributes = <<>>
            /\ xml = <<>>
            /\ arg = NotCalled
            /\ result = NotCalled

NextIsolation == Specialize \/ MutateCopy

SpecIsolation == InitIsolation /\ [][NextIsolation]_vars

\* The mapping model as load_mapping_model returned it
LoadedView == LET st == load_mapping_model(csv_rows) IN View(st.heap, st.dict)

\* Every "Expr" of text is followed by the decimal digits of i
EveryExprNumbered(text, i) ==
    \A p \in 1..Len(text) :
        OccursAt(text, <<"E", "x", "p", "r">>, p) => OccursAt(text, IntStr(i), p + 4)

\* text without the digits of i that follow each "Expr"
RECURSIVE WithoutNumbers(_, _, _)
WithoutNumbers(text, i, p) ==
    IF p > Len(text) THEN <<>>
    ELSE IF OccursAt(text, <<"E", "x", "p", "r">>, p)
         THEN <<"E", "x", "p", "r">> \o WithoutNumbers(text, i, p + 4 + Len(IntStr(i)))
         ELSE <<text[p]>> \o WithoutNumbers(text, i, p + 1)

\* C4: in the model for configuration index i a point whose handler is "Expr"
\* has handler "Expr" (i = 0) or "Expr" followed by i-1 (i > 0) and every
\* occurrence of "Expr" in its variant values is followed by i, the rest of
\* the value being as in the source; the other points are unchanged.
C4_ExprRenaming ==
    pc = "specialized" =>
        \A c \in 1..Len(map_models) :
            LET i == c - 1
                src == LoadedView
                cp == View(heap, map_models[c])
            IN  /\ Len(cp) = Len(src)
                /\ \A k \in 1..Len(src) :
                      /\ cp[k].key = src[k].key
                      /\ IF src[k].vp.handler = <<"E", "x", "p", "r">>
                         THEN /\ i = 0 => cp[k].vp.handler = <<"E", "x", "p", "r">>
                              /\ i = 1 => cp[k].vp.handler = <<"E", "x", "p", "r", "0">>
                              /\ i = 2 => cp[k].vp.handler = <<"E", "x", "p", "r", "1">>
                              /\ i > 0 => cp[k].vp.handler =
                                              <<"E", "x", "p", "r">> \o IntStr(i - 1)
                              /\ cp[k].vp.feature = src[k].vp.feature
                              /\ Len(cp[k].vp.variants) = Len(src[k].vp.variants)
                              /\ \A j \in 1..Len(src[k].vp.variants) :
                                    LET old == src[k].vp.variants[j]
                                        new == cp[k].vp.variants[j]
                                    IN  /\ new.identifier = old.identifier
                                        /\ new.value.tag = "str"
                                        /\ EveryExprNumbered(new.value.s, i)
                                        /\ WithoutNumbers(new.value.s, i, 1) = old.value.s
                         ELSE cp[k].vp = src[k].vp

\* Three configurations, a point with handler "Expr" and a value holding
\* "Expr" twice, and a point with another handler whose value holds "Expr"
C4_Witness ==
    /\ pc = "specialized"
    /\ Len(map_models) = 3
    /\ \E k \in 1..Len(LoadedView) :
          /\ LoadedView[k].vp.handler = sExpr
          /\ LoadedView[k].vp.variants[1].value = Str(sExpr \o sExpr)
          /\ VP(heap, map_models[3][k].vp).variants[1].value
                = Str(<<"E", "x", "p", "r", "2", "E", "x", "p", "r", "2">>)
    /\ \E k \in 1..Len(LoadedView) :
          /\ LoadedView[k].vp.handler = sOp
          /\ LoadedView[k].vp.variants[1].value = Str(sExpr)

\* The objects a mapping model reaches
Addrs(h, d) == {d[k].vp : k \in 1..Len(d)}
               \cup UNION {{h[d[k].vp].variants[j] : j \in 1..Len(h[d[k].vp].variants)}
                           : k \in 1..Len(d)}

\* After the call: the original is as loaded, and no object is shared
Isolated ==
    /\ pc \in {"specialized", "raised"} => View(heap, mapping_model) = LoadedView
    /\ pc = "specialized" =>
          \A c \in 1..Len(map_models) :
              /\ Addrs(heap, map_models[c]) \cap Addrs(heap, mapping_model) = {}
              /\ \A e \in 1..Len(map_models) :
                    e # c => Addrs(heap, map_models[c]) \cap Addrs(heap, map_models[e]) = {}

\* A change of one copy leaves the original and the other copies as they
\* were before the change (arg.before is the heap before it)
MutationLocal ==
    pc = "mutated" =>
        /\ View(heap, mapping_model) = View(arg.before, mapping_model)
        /\ View(heap, mapping_model) = LoadedView
        /\ \A e \in 1..Len(map_models) :
              e # arg.s[1] => View(heap, map_models[e]) = View(arg.before, map_models[e])

\* C5: mapping_model_by_configurations leaves the original mapping model
\* unchanged, the specialized models share no variation point or variant with
\* it or with each other, and any change of one copy leaves every other copy
\* and the original unchanged.
C5_SpecializerIsolation == Isolated /\ MutationLocal

\* The copy for configuration index 2 of a two-point model has been changed
\* while copies for indices 0 and 1 exist
C5_Witness ==
    /\ pc = "mutated"
    /\ arg.s = <<3>>
    /\ Len(map_models) = 3
    /\ Len(mapping_model) = 2
    /\ Len(csv_rows) = 3
    /\ View(heap, map_models[3]) # View(arg.before, map_models[3])
    /\ \E k \in 1..2 : heap[mapping_model[k].vp].handler = sExpr

\* C10: specialization is total: for every loadable mapping model (a null
\* variant value under handler "Expr" included) and every list of n
\* configurations it returns n models with the source's keys and variant
\* identifiers in order, null values still null.
C10_SpecializationTotal ==
    pc \in {"specialized", "raised"} =>
        /\ pc = "specialized"
        /\ Len(map_models) = Len(configurations)
        /\ \A c \in 1..Len(map_models) :
              LET src == LoadedView
                  cp == View(heap, map_models[c])
              IN  /\ Len(cp) = Len(src)
                  /\ \A k \in 1..Len(src) :
                        /\ cp[k].key = src[k].key
                        /\ Len(cp[k].vp.variants) = Len(src[k].vp.variants)
                        /\ \A j \in 1..Len(src[k].vp.variants) :
                              /\ cp[k].vp.variants[j].identifier
                                    = src[k].vp.variants[j].identifier
                              /\ src[k].vp.variants[j].value = None
                                    => cp[k].vp.variants[j].value = None

----------------------------------------------------------------------------
(* The variant resolver                                                     *)

\* line 132; a Configuration is its elements dict, Feature -> bool
is_selected_in_a_configuration(feature, configs) ==
    \E i \in 1..Len(configs) : feature \in DOMAIN configs[i] /\ configs[i][feature]

\* A slip: the last attribute set that holds the identifier wins.
get_attribute_value_last(identifier, attrs) ==
    IF \E i \in 1..Len(attrs) : identifier \in DOMAIN attrs[i]
    THEN LET i == CHOOSE n \in 1..Len(attrs) :
                     /\ identifier \in DOMAIN attrs[n]
                     /\ \A m \in (n+1)..Len(attrs) : identifier \notin DOMAIN attrs[m]
         IN  Str(attrs[i][identifier])
    ELSE None

\* lines 135-139 from the i-th attribute set on
RECURSIVE AttributeValueFrom(_, _, _)
AttributeValueFrom(identifier, attrs, i) ==
    IF i > Len(attrs) THEN None
    ELSE IF identifier \in DOMAIN attrs[i] THEN Str(attrs[i][identifier])
    ELSE AttributeValueFrom(identifier, attrs, i + 1)

\* lines 135-139
get_attribute_value(identifier, attrs) == AttributeValueFrom(identifier, attrs, 1)

\* lines 146-151: the guard feature name of a variant
GuardName(variant) ==
    IF Contains(variant.identifier, ".") THEN BeforeFirst(variant.identifier, ".")
    ELSE variant.identifier

\* lines 144-154 from the j-th variant on
RECURSIVE VariantValueFrom(_, _, _, _, _)
VariantValueFrom(model, vp, configs, attrs, j) ==
    IF j > Len(vp.variants) THEN None
    ELSE LET variant == vp.variants[j]
             value == IF Contains(variant.identifier, ".")
                      THEN get_attribute_value(variant.identifier, attrs)
                      ELSE variant.value
             feature == get_feature_from_fm(GuardName(variant), model)
         IN  IF IsRaise(feature) THEN feature
             ELSE IF is_selected_in_a_configuration(feature.s, configs) THEN value
             ELSE VariantValueFrom(model, vp, configs, attrs, j + 1)

\* A slip: the loop does not stop at the first match, the last match wins.
RECURSIVE VariantValueLastFrom(_, _, _, _, _, _)
VariantValueLastFrom(model, vp, configs, attrs, j, found) ==
    IF j > Len(vp.variants) THEN found
    ELSE LET variant == vp.variants[j]
             value == IF Contains(variant.identifier, ".")
                      THEN get_attribute_value(variant.identifier, attrs)
                      ELSE variant.value
             feature == get_feature_from_fm(GuardName(variant), model)
         IN  IF IsRaise(feature) THEN feature
             ELSE VariantValueLastFrom(model, vp, configs, attrs, j + 1,
                      IF is_selected_in_a_configuration(feature.s, configs)
                      THEN value ELSE found)

get_variant_value_last(model, vp, configs, attrs) ==
    VariantValueLastFrom(model, vp, configs, attrs, 1, None)

\* lines 142-154
get_variant_value(model, vp, configs, attrs) ==
    VariantValueFrom(model, vp, configs, attrs, 1)

\* lines 158-169 from the j-th variant on; attrs is one dict
RECURSIVE VariantValueInConfigurationFrom(_, _, _, _, _)
VariantValueInConfigurationFrom(model, vp, configuration, attrs, j) ==
    IF j > Len(vp.variants) THEN None
    ELSE LET variant == vp.variants[j]
             value == IF Contains(variant.identifier, ".")
                      THEN (IF variant.identifier \in DOMAIN attrs
                            THEN Str(attrs[variant.identifier]) ELSE None)
                      ELSE variant.value
             feature == get_feature_from_fm(GuardName(variant), model)
         IN  IF IsRaise(feature) THEN feature
             ELSE IF feature.s \in DOMAIN configuration /\ configuration[feature.s]
             THEN value
             ELSE VariantValueInConfigurationFrom(model, vp, configuration, attrs, j + 1)

\* lines 156-169
get_variant_value_in_configuration(model, vp, configuration, attrs) ==
    VariantValueInConfigurationFrom(model, vp, configuration, attrs, 1)

----------------------------------------------------------------------------
(* SpecResolve: the resolver on the variation points of a loaded mapping    *)
(* model, a list of configurations and a list of attribute sets             *)

ResolveRows == [VariationPointFeature : {sOp}, Handler : {sOp},
                VariantIdentifier : {sAdd, sSub, sAddA, sGhost},
                VariantValue : {sDash, sPlus}]

\* Mapping-model files of up to n rows
RECURSIVE FilesOver(_, _)
FilesOver(rowset, n) ==
    IF n = 0 THEN {<<>>}
    ELSE LET prev == FilesOver(rowset, n - 1)
         IN  prev \cup {Append(f, r) : f \in prev, r \in rowset}

ResolveFiles == FilesOver(ResolveRows, MaxVariants) \ {<<>>}

\* Configurations over Add and Sub: each selected, deselected or not mentioned
PartialMaps(keys, values) == UNION {[ks -> values] : ks \in SUBSET keys}

ResolveConfigurations == PartialMaps({sAdd, sSub}, BOOLEAN)

\* No configuration, one, or two
ResolveConfigurationLists ==
    {<<>>} \cup {<<c>> : c \in ResolveConfigurations}
           \cup {<<c, e>> : c \in ResolveConfigurations, e \in ResolveConfigurations}

ResolveAttributeLists ==
    {<<>>, <<[x \in {sAddA} |-> sV1]>>,
     <<[x \in {sAddA} |-> sV2], [x \in {sAddA} |-> sV1]>>}

NoCall == [k |-> 0, i |-> 0, a |-> 0, identifier |-> <<>>]

InitResolve ==
    \E rows \in ResolveFiles, cfgs \in ResolveConfigurationLists,
       attrs \in ResolveAttributeLists :
        LET st == load_mapping_model(rows)
        IN  /\ pc = "ready"
            /\ csv_rows = rows
            /\ heap = st.heap
            /\ mapping_model = st.dict
            /\ map_models = <<>>
            /\ configurations = cfgs
            /\ attributes = attrs
            /\ xml = <<>>
            /\ arg = NoCall
            /\ result = NotCalled

\* get_variant_value(fm, vp, configurations, attributes) for a point of the model
CallGetVariantValue ==
    /\ pc = "ready"
    /\ \E k \in 1..Len(mapping_model) :
          /\ arg' = [arg EXCEPT !.k = k]
          /\ result' = get_variant_value(fm, VP(heap, mapping_model[k].vp),
                                         configurations, attributes)
    /\ pc' = "get_variant_value"
    /\ UNCHANGED <<csv_rows, heap, mapping_model, map_models, configurations,
                   attributes, xml>>

EmptyDict == [x \in {} |-> <<>>]

\* get_variant_value_in_configuration(fm, vp, configurations[i], attributes[a]),
\* a = 0 standing for an empty attribute set
CallGetVariantValueInConfiguration ==
    /\ pc = "ready"
    /\ \E k \in 1..Len(mapping_model), i \in 1..Len(configurations),
          a \in 0..Len(attributes) :
          /\ arg' = [arg EXCEPT !.k = k, !.i = i, !.a = a]
          /\ result' = get_variant_value_in_configuration(
                           fm, VP(heap, mapping_model[k].vp), configurations[i],
                           IF a = 0 THEN EmptyDict ELSE attributes[a])
    /\ pc' = "get_variant_value_in_configuration"
    /\ UNCHANGED <<csv_rows, heap, mapping_model, map_models, configurations,
                   attributes, xml>>

NextResolve == CallGetVariantValue \/ CallGetVariantValueInConfiguration

SpecResolve == InitResolve /\ [][NextResolve]_vars

\* The guard feature name of an identifier: the identifier, or its part
\* before the first '.'
GuardOfIdentifier(identifier) ==
    IF \E p \in 1..Len(identifier) : identifier[p] = "."
    THEN SubSeq(identifier, 1,
                (CHOOSE p \in 1..Len(identifier) :
                    identifier[p] = "." /\ \A q \in 1..(p-1) : identifier[q] # ".") - 1)
    ELSE identifier

IsDotted(identifier) == \E p \in 1..Len(identifier) : identifier[p] = "."

\* Present in the configuration's mapping with boolean true, in any of cfgs
SelectedIn(name, cfgs) ==
    \E i \in 1..Len(cfgs) : name \in DOMAIN cfgs[i] /\ cfgs[i][name] = TRUE

\* The value of the first attribute set, in order, that holds the identifier
FirstHolding(identifier, attrs) ==
    LET has == {i \in 1..Len(attrs) : identifier \in DOMAIN attrs[i]}
    IN  IF has = {} THEN None
        ELSE Str(attrs[CHOOSE i \in has : \A n \in has : i <= n][identifier])

\* The candidate value of a variant
Candidate(variant, attrs) ==
    IF IsDotted(variant.identifier) THEN FirstHolding(variant.identifier, attrs)
    ELSE variant.value

\* The variants whose guard is satisfied
Satisfied(vp, cfgs) ==
    {j \in 1..Len(vp.variants) :
        SelectedIn(GuardOfIdentifier(vp.variants[j].identifier), cfgs)}

\* The variants whose guard feature is not in the feature model
Unknown(vp) ==
    {j \in 1..Len(vp.variants) : GuardOfIdentifier(vp.variants[j].identifier) \notin fm}

Least(S) == CHOOSE j \in S : \A n \in S : j <= n

\* First match wins, null when nothing matches
FirstMatch(vp, cfgs, attrs) ==
    IF Satisfied(vp, cfgs) = {} THEN None
    ELSE Candidate(vp.variants[Least(Satisfied(vp, cfgs))], attrs)

\* First match wins unless a variant with an unknown guard feature comes first
FirstMatchOrUnknown(vp, cfgs, attrs) ==
    LET stop == Satisfied(vp, cfgs) \cup Unknown(vp)
    IN  IF stop = {} THEN None
        ELSE IF Least(stop) \in Unknown(vp) THEN Raise(UnknownFeature)
        ELSE Candidate(vp.variants[Least(stop)], attrs)

\* The point and the arguments of the call made
CalledVP == VP(heap, mapping_model[arg.k].vp)
CalledConfiguration == <<configurations[arg.i]>>
CalledAttributes == IF arg.a = 0 THEN <<>> ELSE <<attributes[arg.a]>>

\* C1 as stated: the result is the candidate value of the first variant in
\* list order whose guard feature is selected (in any supplied configuration,
\* or in the one configuration), and null when no guard is satisfied.
C1_FirstMatchWins ==
    /\ pc = "get_variant_value" =>
          result = FirstMatch(CalledVP, configurations, attributes)
    /\ pc = "get_variant_value_in_configuration" =>
          result = FirstMatch(CalledVP, CalledConfiguration, CalledAttributes)

\* C1 amended: as C1, for the variants up to the first whose guard feature is
\* not in the feature model; when such a variant is reached before any
\* satisfied guard the call raises the unknown-feature error instead.
C1_FirstMatchWinsOrUnknownFeature ==
    /\ pc = "get_variant_value" =>
          result = FirstMatchOrUnknown(CalledVP, configurations, attributes)
    /\ pc = "get_variant_value_in_configuration" =>
          result = FirstMatchOrUnknown(CalledVP, CalledConfiguration, CalledAttributes)

\* Two variants with guards Add and Sub, both selected (in different
\* configurations), the first value "+", the second null: "+" is returned
C1_Witness ==
    /\ pc = "get_variant_value"
    /\ Len(CalledVP.variants) = 2
    /\ CalledVP.variants[1] = [identifier |-> sAdd, value |-> Str(sPlus)]
    /\ CalledVP.variants[2] = [identifier |-> sSub, value |-> None]
    /\ Len(configurations) = 2
    /\ sSub \in DOMAIN configurations[1] /\ configurations[1][sSub]
    /\ sAdd \in DOMAIN configurations[2] /\ configurations[2][sAdd]
    /\ result = Str(sPlus)

\* The rows of the file whose identifier has no '.', in file order
UndottedRows == LET Plain(r) == ~IsDotted(r.VariantIdentifier) IN SelectSeq(csv_rows, Plain)

\* C3: a row with VariantValue "-" is loaded as a variant whose value is null,
\* and when that variant is the first whose guard is satisfied the result of
\* get_variant_value differs from the result returned when no guard is
\* satisfied (null).
C3_NullSentinelDistinctFromNoMatch ==
    pc = "get_variant_value" /\ mapping_model[arg.k].key = sOp =>
        /\ Len(CalledVP.variants) = Len(UndottedRows)
        /\ \A j \in 1..Len(UndottedRows) :
              UndottedRows[j].VariantValue = <<"-">> => CalledVP.variants[j].value = None
        /\ \A j \in 1..Len(UndottedRows) :
              ( /\ UndottedRows[j].VariantValue = <<"-">>
                /\ Satisfied(CalledVP, configurations) # {}
                /\ j = Least(Satisfied(CalledVP, configurations))
                /\ \A n \in Unknown(CalledVP) : j < n )
              => result # FirstMatch(CalledVP, <<>>, attributes)

\* The first half of C3 alone: "-" is loaded as null
C3_DashLoadedAsNull ==
    pc = "get_variant_value" /\ mapping_model[arg.k].key = sOp =>
        /\ Len(CalledVP.variants) = Len(UndottedRows)
        /\ \A j \in 1..Len(UndottedRows) :
              UndottedRows[j].VariantValue = <<"-">> => CalledVP.variants[j].value = None

----------------------------------------------------------------------------
(* SpecAttr: get_attribute_value, and get_variant_value on attribute-valued *)
(* variants, over every ordering of up to MaxAttrSets attribute sets        *)

AttrDicts == PartialMaps({sAddA, sOpA}, {sV1, sV2})

RECURSIVE ListsOver(_, _)
ListsOver(S, n) ==
    IF n = 0 THEN {<<>>}
    ELSE LET prev == ListsOver(S, n - 1)
         IN  prev \cup {Append(l, x) : l \in prev, x \in S}

AttrRows == {[VariationPointFeature |-> sOp, Handler |-> sOp,
              VariantIdentifier |-> sAddA, VariantValue |-> sDash],
             [VariationPointFeature |-> sOp, Handler |-> sOp,
              VariantIdentifier |-> sOpA, VariantValue |-> sDash],
             [VariationPointFeature |-> sOp, Handler |-> sOp,
              VariantIdentifier |-> sSub, VariantValue |-> sPlus]}

AttrFiles == {<<r>> : r \in AttrRows} \cup {<<r, q>> : r \in AttrRows, q \in AttrRows}

InitAttr ==
    \E rows \in AttrFiles, c \in [{sAdd, sOp} -> BOOLEAN],
       attrs \in ListsOver(AttrDicts, MaxAttrSets) :
        LET st == load_mapping_model(rows)
        IN  /\ pc = "ready"
            /\ csv_rows = rows
            /\ heap = st.heap
            /\ mapping_model = st.dict
            /\ map_models = <<>>
            /\ configurations = <<c>>
            /\ attributes = attrs
            /\ xml = <<>>
            /\ arg = NoCall
            /\ result = NotCalled

\* get_attribute_value(identifier, attributes)
CallGetAttributeValue ==
    /\ pc = "ready"
    /\ \E identifier \in {sAddA, sOpA, sGhostA} :
          /\ arg' = [arg EXCEPT !.identifier = identifier]
          /\ result' = get_attribute_value(identifier, attributes)
    /\ pc' = "get_attribute_value"
    /\ UNCHANGED <<csv_rows, heap, mapping_model, map_models, configurations,
                   attributes, xml>>

NextAttr == CallGetAttributeValue \/ CallGetVariantValue

SpecAttr == InitAttr /\ [][NextAttr]_vars

\* C6: get_attribute_value returns the value held by the first attribute set,
\* in the supplied order, that contains the identifier, and null when none
\* does; get_variant_value returns exactly this value when the first variant
\* whose guard is satisfied is a dotted one.
C6_AttributePrecedence ==
    /\ pc = "get_attribute_value" =>
          LET has == {i \in 1..Len(attributes) : arg.identifier \in DOMAIN attributes[i]}
          IN  /\ has = {} => result = None
              /\ \A i \in has :
                    (\A n \in has : i <= n) => result = Str(attributes[i][arg.identifier])
    /\ pc = "get_variant_value" =>
          \A j \in 1..Len(CalledVP.variants) :
              ( /\ j \in Satisfied(CalledVP, configurations)
                /\ \A n \in 1..(j-1) : n \notin Satisfied(CalledVP, configurations)
                /\ IsDotted(CalledVP.variants[j].identifier) )
              => LET id == CalledVP.variants[j].identifier
                     has == {i \in 1..Len(attributes) : id \in DOMAIN attributes[i]}
                 IN  /\ has = {} => result = None
                     /\ \A i \in has :
                           (\A n \in has : i <= n) => result = Str(attributes[i][id])

\* Two attribute sets hold Add.a with different values; the first one's is returned
C6_Witness ==
    /\ pc = "get_attribute_value"
    /\ arg.identifier = sAddA
    /\ Len(attributes) = 2
    /\ sAddA \in DOMAIN attributes[1] /\ attributes[1][sAddA] = sV2
    /\ sAddA \in DOMAIN attributes[2] /\ attributes[2][sAddA] = sV1
    /\ result = Str(sV2)

----------------------------------------------------------------------------
(* build_template_maps                                                      *)

\* maps[handler] = value on an insertion-ordered dict, Seq of [key, value]
MapSet(m, k, v) ==
    IF \E i \in 1..Len(m) : m[i].key = k
    THEN [i \in 1..Len(m) |-> IF m[i].key = k THEN [key |-> k, value |-> v] ELSE m[i]]
    ELSE Append(m, [key |-> k, value |-> v])

\* lines 181-186: the value of a selected simple variation point
TemplateValue(model, vp, configs, attrs) ==
    IF Len(vp.variants) = 0 THEN True
    ELSE IF vp.variants[1].identifier = sDash THEN True
    ELSE get_variant_value(model, vp, configs, attrs)

\* A slip: the test of the governing feature (line 180) is left out.
GoverningFeatureIgnored(vp, configs) == TRUE

\* line 180
GoverningFeatureSelected(vp, configs) ==
    is_selected_in_a_configuration(vp.feature, configs)

\* lines 178-186 from the k-th variation point of the model on
RECURSIVE BuildFrom(_, _, _, _, _, _)
BuildFrom(model, mm, configs, attrs, k, maps) ==
    IF k > Len(mm) THEN [tag |-> "dict", s |-> maps]
    ELSE LET vp == mm[k].vp
         IN  IF ~Contains(vp.handler, ".") /\ GoverningFeatureSelected(vp, configs)
             THEN LET v == TemplateValue(model, vp, configs, attrs)
                  IN  IF IsRaise(v) THEN v
                      ELSE BuildFrom(model, mm, configs, attrs, k + 1,
                                     MapSet(maps, vp.handler, v))
             ELSE BuildFrom(model, mm, configs, attrs, k + 1, maps)

\* lines 172-187; mm is the mapping model as a value (View)
build_template_maps(model, mm, configs, attrs) ==
    BuildFrom(model, mm, configs, attrs, 1, <<>>)

----------------------------------------------------------------------------
(* SpecBuild: build_template_maps on a loaded mapping model                 *)

BuildRows == [VariationPointFeature : {sOp, sAdd}, Handler : {sOp, sPx},
              VariantIdentifier : {sAdd, sSub, sDash, sOpA, sGhost},
              VariantValue : {sPlus, sMinus}]

BuildFiles == {<<r>> : r \in BuildRows} \cup {<<r, q>> : r \in BuildRows, q \in BuildRows}

BuildConfigurations == [fm -> BOOLEAN]

\* No configuration, one, or two
BuildConfigurationLists ==
    {<<>>} \cup {<<c>> : c \in BuildConfigurations}
           \cup {<<c, e>> : c \in BuildConfigurations, e \in BuildConfigurations}

BuildAttributeLists == {<<>>, <<[x \in {sOpA} |-> sV1]>>}

InitBuild ==
    \E rows \in BuildFiles, cfgs \in BuildConfigurationLists,
       attrs \in BuildAttributeLists :
        LET st == load_mapping_model(rows)
        IN  /\ pc = "ready"
            /\ csv_rows = rows
            /\ heap = st.heap
            /\ mapping_model = st.dict
            /\ map_models = <<>>
            /\ configurations = cfgs
            /\ attributes = attrs
            /\ xml = <<>>
            /\ arg = NoCall
            /\ result = NotCalled

\* maps = build_template_maps(fm, mapping_model, configurations, attributes)
CallBuildTemplateMaps ==
    /\ pc = "ready"
    /\ result' = build_template_maps(fm, View(heap, mapping_model),
                                     configurations, attributes)
    /\ pc' = "build_template_maps"
    /\ UNCHANGED <<csv_rows, heap, mapping_model, map_models, configurations,
                   attributes, xml, arg>>

NextBuild == CallBuildTemplateMaps

SpecBuild == InitBuild /\ [][NextBuild]_vars

\* The points of the model that get an entry: no '.' in the handler and the
\* governing feature selected in at least one configuration
Qualifying(mm, cfgs) ==
    {k \in 1..Len(mm) : ~IsDotted(mm[k].vp.handler) /\ SelectedIn(mm[k].vp.feature, cfgs)}

MapKeys(m) == {m[i].key : i \in 1..Len(m)}
MapAt(m, k) == m[CHOOSE i \in 1..Len(m) : m[i].key = k].value

\* C2: the returned map has an entry for handler h exactly when some point
\* with handler h has no '.' in h and its governing feature selected in a
\* supplied configuration; the entry is true when the point has no variants or
\* its first variant's identifier is "-", and otherwise get_variant_value of
\* the point (of the last such point in model order when several share h).
\* With rows (Op,Op,Add,"+"), (Op,Op,Sub,"minus") and Op and Sub selected but
\* not Add, map["Op"] is "minus".
C2_TemplateMap ==
    pc = "build_template_maps" /\ result.tag = "dict" =>
        LET mm == View(heap, mapping_model)
            q == Qualifying(mm, configurations)
        IN  /\ MapKeys(result.s) = {mm[k].vp.handler : k \in q}
            /\ \A k \in q :
                  (\A n \in q : mm[n].vp.handler = mm[k].vp.handler => n <= k)
                  => MapAt(result.s, mm[k].vp.handler) =
                        (IF mm[k].vp.variants = <<>> THEN True
                         ELSE IF mm[k].vp.variants[1].identifier = <<"-">> THEN True
                         ELSE get_variant_value(fm, mm[k].vp, configurations, attributes))
            /\ ( /\ csv_rows = <<[VariationPointFeature |-> sOp, Handler |-> sOp,
                                  VariantIdentifier |-> sAdd, VariantValue |-> sPlus],
                                 [VariationPointFeature |-> sOp, Handler |-> sOp,
                                  VariantIdentifier |-> sSub, VariantValue |-> sMinus]>>
                 /\ SelectedIn(sOp, configurations)
                 /\ SelectedIn(sSub, configurations)
                 /\ ~SelectedIn(sAdd, configurations) )
               => /\ MapKeys(result.s) = {sOp}
                  /\ MapAt(result.s, sOp) = Str(<<"m", "i", "n", "u", "s">>)

\* The example of the claim: Op and Sub selected, Add not
C2_Witness ==
    /\ pc = "build_template_maps"
    /\ csv_rows = <<[VariationPointFeature |-> sOp, Handler |-> sOp,
                     VariantIdentifier |-> sAdd, VariantValue |-> sPlus],
                    [VariationPointFeature |-> sOp, Handler |-> sOp,
                     VariantIdentifier |-> sSub, VariantValue |-> sMinus]>>
    /\ configurations = <<[f \in fm |-> f # sAdd]>>
    /\ result = [tag |-> "dict", s |-> <<[key |-> sOp, value |-> Str(sMinus)]>>]

----------------------------------------------------------------------------
(* parse_configuration                                                      *)

\* features[feature_object] = feature_selected
ElementSet(features, f, selected) ==
    [x \in DOMAIN features \cup {f} |-> IF x = f THEN selected ELSE features[x]]

\* lines 69-74
FeatureSelected(attrib) ==
    IF "automatic" \in DOMAIN attrib THEN attrib["automatic"] = sSelected
    ELSE IF "manual" \in DOMAIN attrib THEN attrib["manual"] = sSelected
    ELSE FALSE

\* lines 66-76 from the n-th child of the root on; a child is its attrib dict
RECURSIVE ParseFrom(_, _, _, _)
ParseFrom(children, model, n, features) ==
    IF n > Len(children) THEN [tag |-> "Configuration", s |-> features]
    ELSE LET attrib == children[n]
         IN  IF DOMAIN attrib = {} THEN ParseFrom(children, model, n + 1, features)
             ELSE IF "name" \notin DOMAIN attrib THEN Raise(KeyError)
             ELSE LET feature_object == get_feature_from_fm(attrib["name"], model)
                  IN  IF IsRaise(feature_object) THEN feature_object
                      ELSE ParseFrom(children, model, n + 1,
                                     ElementSet(features, feature_object.s,
                                                FeatureSelected(attrib)))

\* lines 60-77 on the children of the root element
parse_configuration(children, model) == ParseFrom(children, model, 1, EmptyDict)

----------------------------------------------------------------------------
(* SpecParse: parse_configuration on a configuration file                   *)

\* The attributes an element can carry: any of name, automatic and manual
ChildAttribs ==
    {a \in PartialMaps({"name", "automatic", "manual"},
                       {sAdd, sGhost, sSelected, sUnselected}) :
        /\ "name" \in DOMAIN a => a["name"] \in {sAdd, sGhost}
        /\ "automatic" \in DOMAIN a => a["automatic"] \in {sSelected, sUnselected}
        /\ "manual" \in DOMAIN a => a["manual"] \in {sSelected, sUnselected}}

InitParse ==
    \E children \in ListsOver(ChildAttribs, MaxRecords) :
        /\ pc = "ready"
        /\ csv_rows = <<>>
        /\ heap = <<>>
        /\ mapping_model = <<>>
        /\ map_models = <<>>
        /\ configurations = <<>>
        /\ attributes = <<>>
        /\ xml = children
        /\ arg = NoCall
        /\ result = NotCalled

\* line 218: parse_configuration(file, fm)
CallParseConfiguration ==
    /\ pc = "ready"
    /\ result' = parse_configuration(xml, fm)
    /\ configurations' = IF IsRaise(result') THEN configurations
                         ELSE Append(configurations, result'.s)
    /\ pc' = "parse_configuration"
    /\ UNCHANGED <<csv_rows, heap, mapping_model, map_models, attributes, xml, arg>>

NextParse == CallParseConfiguration

SpecParse == InitParse /\ [][NextParse]_vars

\* The records that carry a name with no match in the feature model
UnknownRecords == {n \in 1..Len(xml) : "name" \in DOMAIN xml[n] /\ xml[n]["name"] \notin fm}

\* The records that carry attributes but no name
NamelessRecords == {n \in 1..Len(xml) : DOMAIN xml[n] # {} /\ "name" \notin DOMAIN xml[n]}

\* C7 as stated: parse_configuration fails with the unknown-feature error for
\* every file that contains a record whose name has no match in the feature
\* model, whatever the record's selection state and position, and returns no
\* Configuration.
C7_UnknownFeatureAlwaysRaised ==
    pc = "parse_configuration" /\ UnknownRecords # {} =>
        /\ result = Raise(<<"UnknownFeature">>)
        /\ configurations = <<>>

\* C7 amended: for every such file parse_configuration fails and returns no
\* Configuration; the failure is the unknown-feature error unless a record
\* that carries attributes but no name comes before the first record with an
\* unknown name, and then it is the KeyError of that record.
C7_UnknownFeatureOrEarlierKeyError ==
    pc = "parse_configuration" /\ UnknownRecords # {} =>
        /\ configurations = <<>>
        /\ IF \E m \in NamelessRecords : m < Least(UnknownRecords)
           THEN result = Raise(<<"KeyError">>)
           ELSE result = Raise(<<"UnknownFeature">>)

\* A known feature first, then a deselected record with an unknown name
C7_Witness ==
    /\ pc = "parse_configuration"
    /\ Len(xml) = 2
    /\ "name" \in DOMAIN xml[1] /\ xml[1]["name"] = sAdd
    /\ "name" \in DOMAIN xml[2] /\ xml[2]["name"] = sGhost
    /\ "manual" \in DOMAIN xml[2] /\ xml[2]["manual"] = sUnselected
    /\ result = Raise(UnknownFeature)
    /\ configurations = <<>>

----------------------------------------------------------------------------
(* SpecMain: the processing loop of __main__ (lines 226-251).  The lists    *)
(* configurations and attributes are in the sorted order of their files     *)
(* (get_files, lines 40-41).  Rendering is jinja2's; the model keeps the    *)
(* maps handed to it.                                                       *)

MainRows == {[VariationPointFeature |-> sOp, Handler |-> sOp,
              VariantIdentifier |-> sOpA, VariantValue |-> sDash],
             [VariationPointFeature |-> sAdd, Handler |-> sAdd,
              VariantIdentifier |-> sAddA, VariantValue |-> sDash],
             [VariationPointFeature |-> sOp, Handler |-> sExpr,
              VariantIdentifier |-> sAdd, VariantValue |-> sExpr]}

MainFiles == {<<r>> : r \in MainRows} \cup {<<r, q>> : r \in MainRows, q \in MainRows}

MainConfigurations == [{sOp, sAdd} -> BOOLEAN]

MainAttributeSets == PartialMaps({sOpA}, {sV1, sV2})

InitMain ==
    \E rows \in MainFiles,
       cfgs \in ListsOver(MainConfigurations, MaxConfigs),
       attrs \in ListsOver(MainAttributeSets, MaxAttrSets) :
        LET st == load_mapping_model(rows)
        IN  /\ pc = "loaded"
            /\ csv_rows = rows
            /\ heap = st.heap
            /\ mapping_model = st.dict
            /\ map_models = <<>>
            /\ configurations = cfgs
            /\ attributes = attrs
            /\ xml = <<>>
            /\ arg = NoCall
            /\ result = NotCalled

\* line 226 on the parsed configurations
SpecializeForConfigurations ==
    /\ pc = "loaded"
    /\ LET st == mapping_model_by_configurations(heap, mapping_model, configurations)
       IN  /\ heap' = st.heap
           /\ map_models' = IF IsRaise(st.err) THEN <<>> ELSE st.models
           /\ result' = st.err
           /\ pc' = IF IsRaise(st.err) THEN "raised" ELSE "loop"
    /\ UNCHANGED <<csv_rows, mapping_model, configurations, attributes, xml, arg>>

\* lines 234-236: one iteration of the loop over zip(configurations, map_models);
\* arg.i is the position of the configuration processed last
LoopIteration ==
    /\ pc = "loop"
    /\ arg.i < Len(configurations)
    /\ arg.i < Len(map_models)
    /\ LET i == arg.i + 1
           maps == build_template_maps(fm, View(heap, map_models[i]),
                                       <<configurations[i]>>, attributes)
       IN  /\ result' = maps
           /\ arg' = [arg EXCEPT !.i = i]
           /\ pc' = IF IsRaise(maps) THEN "raised" ELSE "loop"
    /\ UNCHANGED <<csv_rows, heap, mapping_model, map_models, configurations,
                   attributes, xml>>

NextMain == SpecializeForConfigurations \/ LoopIteration

SpecMain == InitMain /\ [][NextMain]_vars

\* C9: in the iteration for the configuration at position i, an
\* attribute-valued variant whose guard is satisfied resolves to the value
\* that the attribute set at position i holds for its identifier, even when
\* an attribute set at an earlier position also contains the identifier.
C9_AttributesPairedByPosition ==
    pc = "loop" /\ arg.i >= 1 /\ result.tag = "dict" =>
        LET i == arg.i
            mm == View(heap, map_models[i])
        IN  \A k \in Qualifying(mm, <<configurations[i]>>) :
                LET v == mm[k].vp.variants[1]
                IN  ( /\ IsDotted(v.identifier)
                      /\ SelectedIn(GuardOfIdentifier(v.identifier), <<configurations[i]>>)
                      /\ i <= Len(attributes)
                      /\ v.identifier \in DOMAIN attributes[i] )
                    => MapAt(result.s, mm[k].vp.handler) = Str(attributes[i][v.identifier])

====
